---- MODULE Spec2Model ----
(***************************************************************************)
(* A model of src/main.py of Musatech/sentry-monitoring: the paginated     *)
(* event fetcher get_all_events, the Lambda entry point lambda_handler,    *)
(* and the pure helpers clean_quoted_strings and get_collect_info.         *)
(***************************************************************************)
EXTENDS Integers, Sequences, FiniteSets, TLC

VARIABLES
    pc,          \* position of the single thread of control
    url,         \* get_all_events: the local `url` (a string or None)
    events,      \* get_all_events: the local list `events`
    response,    \* what the upstream answered to the latest request
    exc,         \* the exception being handled by an except clause
    reqLog,      \* history: the URLs requested so far, in order
    sizes,       \* history: the sizes of the pages fully processed so far
    failed,      \* history: some page fetch has raised
    pageStart,   \* history: len(events) when the latest request was issued
    csv_output,  \* lambda_handler: the local `csv_output`
    s3,          \* the put_object calls made so far, in order
    result,      \* what lambda_handler returned
    data,        \* clean_quoted_strings: its argument
    cleaned,     \* clean_quoted_strings: its return value, once called
    entries,     \* get_collect_info: its argument
    info         \* get_collect_info: its return value, once called

vars == <<pc, url, events, response, exc, reqLog, sizes, failed, pageStart,
          csv_output, s3, result, data, cleaned, entries, info>>

pureVars == <<data, cleaned, entries, info>>

------------------------------------------------------------------------------
(* Bounds of the model and constants of the program *)

\* the cap of the while condition
MaxEvents == 1000
\* requests issued in one run
MaxReq == 2
\* pages of 0..MaxSmallPage events, and one page of BigPage events
MaxSmallPage == 2
BigPage == 999
\* position in its page of an event that raises
MaxBadPos == 2
\* comma-separated parts of a Link header
MaxParts == 2
\* characters of a string handed to clean_quoted_strings
MaxStrLen == 3
\* containers and leaves of a value handed to clean_quoted_strings
MaxValueNodes == 3
\* entries, threads and frames of a list handed to get_collect_info
MaxTraceNodes == 5

None == "None"
BaseUrl == "events/?full=true"
NextUrls == {"", "u1", "u2"}

------------------------------------------------------------------------------
(* JSON-decoded values: a tag t and a payload v.  A string is the sequence of
   its characters, a list the sequence of its items, a dict the sequence of its
   items (k, v) in insertion order, k a string. *)

Chars == {"'", "a"}
Strs(n) == UNION {[1..k -> Chars] : k \in 0..n}

Str(s) == [t |-> "str", v |-> s]
List(items) == [t |-> "list", v |-> items]
Dict(items) == [t |-> "dict", v |-> items]
Scalars == {[t |-> "int", v |-> 5], [t |-> "none", v |-> 0]}

\* clean_quoted_strings(data)
RECURSIVE NoLenCheckClean(_)
NoLenCheckClean(x) ==
    IF x.t = "dict"
    THEN Dict([i \in 1..Len(x.v) |-> [k |-> x.v[i].k, v |-> NoLenCheckClean(x.v[i].v)]])
    ELSE IF x.t = "list"
    THEN List([i \in 1..Len(x.v) |-> NoLenCheckClean(x.v[i])])
    ELSE IF x.t = "str"
    THEN IF Len(x.v) >= 1 /\ x.v[1] = "'" /\ x.v[Len(x.v)] = "'"
         THEN Str(SubSeq(x.v, 2, Len(x.v) - 1))
         ELSE x
    ELSE x

RECURSIVE clean_quoted_strings(_)
clean_quoted_strings(x) ==
    IF x.t = "dict"
    THEN Dict([i \in 1..Len(x.v) |-> [k |-> x.v[i].k, v |-> clean_quoted_strings(x.v[i].v)]])
    ELSE IF x.t = "list"
    THEN List([i \in 1..Len(x.v) |-> clean_quoted_strings(x.v[i])])
    ELSE IF x.t = "str"
    THEN IF Len(x.v) >= 2 /\ x.v[1] = "'" /\ x.v[Len(x.v)] = "'"
         THEN Str(SubSeq(x.v, 2, Len(x.v) - 1))
         ELSE x
    ELSE x

------------------------------------------------------------------------------
(* get_collect_info: entries -> data.values -> stacktrace.frames -> vars.
   A key that may be absent from a dict is a has_ flag beside the field. *)

NotFound == [found |-> FALSE, val |-> Dict(<<>>)]

\* frame.get('vars', {})
FrameVars(frame) == IF frame.has_vars THEN frame.vars ELSE <<>>

\* 'body' in frame_vars
HasBody(frame) == \E i \in 1..Len(FrameVars(frame)) : FrameVars(frame)[i].k = "body"

\* frame_vars['body']
Body(frame) ==
    LET vs == FrameVars(frame)
    IN vs[CHOOSE i \in 1..Len(vs) : vs[i].k = "body"].v

\* stacktrace = thread.get('stacktrace', {}) or {}; frames = stacktrace.get('frames', [])
Frames(thread) ==
    IF thread.stacktrace = "dict" /\ thread.has_frames THEN thread.frames ELSE <<>>

\* threads_list = entry.get('data', {}).get('values', [])
Threads(entry) ==
    IF entry.has_data /\ entry.has_values THEN entry.values ELSE <<>>

\* for frame in frames: if 'body' in frame_vars: return clean_quoted_strings(...)
RECURSIVE LastMatchFrameLoop(_, _)
LastMatchFrameLoop(frames, i) ==
    IF i > Len(frames) THEN NotFound
    ELSE LET rest == LastMatchFrameLoop(frames, i + 1)
         IN IF rest.found THEN rest
            ELSE IF HasBody(frames[i])
            THEN [found |-> TRUE, val |-> clean_quoted_strings(Body(frames[i]))]
            ELSE NotFound

RECURSIVE FrameLoop(_, _)
FrameLoop(frames, i) ==
    IF i > Len(frames) THEN NotFound
    ELSE IF HasBody(frames[i])
    THEN [found |-> TRUE, val |-> clean_quoted_strings(Body(frames[i]))]
    ELSE FrameLoop(frames, i + 1)

\* for thread in threads_list
RECURSIVE ThreadLoop(_, _)
ThreadLoop(threads, j) ==
    IF j > Len(threads) THEN NotFound
    ELSE LET r == FrameLoop(Frames(threads[j]), 1)
         IN IF r.found THEN r ELSE ThreadLoop(threads, j + 1)

\* for entry in entries
RECURSIVE EntryLoop(_, _)
EntryLoop(es, k) ==
    IF k > Len(es) THEN NotFound
    ELSE LET r == ThreadLoop(Threads(es[k]), 1)
         IN IF r.found THEN r ELSE EntryLoop(es, k + 1)

\* get_collect_info(entries); the final return {} when no frame qualified
get_collect_info(es) == EntryLoop(es, 1).val

------------------------------------------------------------------------------
(* The upstream's answers *)

\* One comma-separated part of a Link header: <url>; rel="..."; results="..."
LinkParts == [url : NextUrls, rel : {"previous", "next"}, results : BOOLEAN]

\* response.getheader('Link'): absent (None) or the parts of the header text
NoLink == [present |-> FALSE, parts |-> <<>>]
LinksUpTo(n) ==
    {NoLink} \cup
    {[present |-> TRUE, parts |-> ps] :
        ps \in UNION {[1..k -> LinkParts] : k \in 0..n}}

NoResponse == [kind |-> "none", size |-> 0, bad |-> 0, link |-> NoLink]

\* urlopen/read/json.loads raising before any event is processed
TransportErrors == {"HTTPError", "URLError", "Exception"}
Raising ==
    {[kind |-> k, size |-> 0, bad |-> 0, link |-> NoLink] : k \in TransportErrors}

\* A page of n well-formed events
GoodPages(Sizes, Links) ==
    {[kind |-> "ok", size |-> n, bad |-> 0, link |-> l] : n \in Sizes, l \in Links}

\* A page whose event number `bad` has an unparseable dateCreated ("baddate")
\* or lacks a required top-level field ("missing"); its Link header is never read
BadPages(Sizes, Positions) ==
    {r \in [kind : {"baddate", "missing"}, size : Sizes, bad : Positions,
            link : {NoLink}] : r.bad <= r.size}

Responses(Sizes, Links, Positions) ==
    Raising \cup GoodPages(Sizes, Links) \cup BadPages(Sizes, Positions)

\* json.loads(response_data): event i of the page answered to request p
Event(p, i, r) ==
    [id |-> <<p, i>>,
     dateCreated |-> IF r.kind = "baddate" /\ i = r.bad THEN "bad"
                     ELSE IF i % 2 = 1 THEN "T.fZ" ELSE "TZ",
     complete |-> ~(r.kind = "missing" /\ i = r.bad)]

Page(p, r) == [i \in 1..r.size |-> Event(p, i, r)]

------------------------------------------------------------------------------
(* get_all_events *)

\* while url and len(events) < 1000
LeLoopCondition(u, evs) == u # None /\ u # "" /\ Len(evs) <= MaxEvents
LoopCondition(u, evs) == u # None /\ u # "" /\ Len(evs) < MaxEvents

\* datetime.strptime with '%Y-%m-%dT%H:%M:%S.%fZ', on ValueError with
\* '%Y-%m-%dT%H:%M:%SZ'; then strftime('%Y-%m-%d %H:%M:%S.%f')
ParseDate(d) ==
    IF d = "T.fZ" THEN [ok |-> TRUE, created_at |-> "T.f"]
    ELSE IF d = "TZ" THEN [ok |-> TRUE, created_at |-> "T.000000"]
    ELSE [ok |-> FALSE, created_at |-> None]

\* the dict literal appended for one event: the field that identifies the
\* event and the reformatted timestamp (the other fields are copied or derived
\* from the event alone and raise nothing once the required keys are there)
FlatRecord(e) == [event_id |-> e.id, created_at |-> ParseDate(e.dateCreated).created_at]

\* events.append(...), for the records recs in order
PrependRecords(evs, recs) == recs \o evs
AppendRecords(evs, recs) == evs \o recs

\* what processing event e raises, if anything
Raises(e) ==
    IF ~e.complete THEN "KeyError"
    ELSE IF ~ParseDate(e.dateCreated).ok THEN "ValueError"
    ELSE "none"

\* for event in json.loads(response_data): ... events.append({...})
\* The loop runs the events in order and stops at the first that raises: the
\* records to append and the exception raised, if any.
EventLoop(page) ==
    LET raising == {i \in 1..Len(page) : Raises(page[i]) # "none"}
        stop == IF raising = {} THEN Len(page) + 1
                ELSE CHOOSE i \in raising : \A j \in raising : i <= j
    IN [recs |-> [i \in 1..(stop - 1) |-> FlatRecord(page[i])],
        exc |-> IF raising = {} THEN "none" ELSE Raises(page[stop])]

RollbackProcessEvents(evs, page) ==
    LET res == EventLoop(page)
    IN [events |-> IF res.exc = "none" THEN AppendRecords(evs, res.recs) ELSE evs,
        exc |-> res.exc]
ProcessEvents(evs, page) ==
    LET res == EventLoop(page)
    IN [events |-> AppendRecords(evs, res.recs), exc |-> res.exc]

\* the Link header handling after the event loop
RECURSIVE LinkLoop(_, _, _)
LinkLoop(link, i, u) ==
    IF i > Len(link.parts) THEN u
    ELSE IF link.parts[i].rel = "next"
         THEN LinkLoop(link, i + 1,
                  IF \E j \in 1..Len(link.parts) : link.parts[j].results
                  THEN link.parts[i].url ELSE None)
         ELSE LinkLoop(link, i + 1, u)

RECURSIVE NoMarkerLinkLoop(_, _, _)
NoMarkerLinkLoop(link, i, u) ==
    IF i > Len(link.parts) THEN u
    ELSE IF link.parts[i].rel = "next"
         THEN NoMarkerLinkLoop(link, i + 1, link.parts[i].url)
         ELSE NoMarkerLinkLoop(link, i + 1, u)

NoMarkerParseLink(link) ==
    IF link.present /\ link.parts # <<>> THEN NoMarkerLinkLoop(link, 1, None) ELSE None
ParseLink(link) ==
    IF link.present /\ link.parts # <<>> THEN LinkLoop(link, 1, None) ELSE None

\* the except clauses, in order
UncaughtKeyErrorExceptClause(e) ==
    IF e = "HTTPError" THEN "http"
    ELSE IF e = "URLError" THEN "url"
    ELSE IF e \in {"Exception", "ValueError"} THEN "generic"
    ELSE "uncaught"
ExceptClause(e) ==
    IF e = "HTTPError" THEN "http"
    ELSE IF e = "URLError" THEN "url"
    ELSE IF e \in {"Exception", "ValueError", "KeyError"} THEN "generic"
    ELSE "uncaught"

\* a history list, kept up to MaxReq entries
Log(log, x) == IF Len(log) < MaxReq THEN Append(log, x) ELSE log

lambdaVars == <<csv_output, s3, result>>

\* the loop condition holds: urlopen(req) is called and the upstream answers
Request(Answers, capped) ==
    /\ pc = "loop"
    /\ LoopCondition(url, events)
    /\ capped => Len(reqLog) < MaxReq
    /\ \E r \in Answers : response' = r
    /\ reqLog' = Log(reqLog, url)
    /\ pageStart' = Len(events)
    /\ pc' = "process"
    /\ UNCHANGED <<url, events, exc, sizes, failed, lambdaVars, pureVars>>

\* urlopen, read or json.loads raises
RaiseOnOpen ==
    /\ pc = "process"
    /\ response.kind \in TransportErrors
    /\ exc' = response.kind
    /\ failed' = TRUE
    /\ pc' = IF ExceptClause(response.kind) = "uncaught" THEN "aborted" ELSE "handler"
    /\ UNCHANGED <<url, events, response, reqLog, sizes, pageStart, lambdaVars, pureVars>>

\* the body of the with block: the event loop, then the Link header
ProcessPage ==
    /\ pc = "process"
    /\ response.kind \notin TransportErrors
    /\ LET res == ProcessEvents(events, Page(Len(reqLog), response))
       IN /\ events' = res.events
          /\ IF res.exc = "none"
             THEN /\ url' = ParseLink(response.link)
                  /\ sizes' = Log(sizes, response.size)
                  /\ pc' = "loop"
                  /\ UNCHANGED <<exc, failed>>
             ELSE /\ exc' = res.exc
                  /\ failed' = TRUE
                  /\ pc' = IF ExceptClause(res.exc) = "uncaught" THEN "aborted"
                           ELSE "handler"
                  /\ UNCHANGED <<url, sizes>>
    /\ UNCHANGED <<response, reqLog, pageStart, lambdaVars, pureVars>>

\* an except clause prints and falls through to the loop condition
Handler ==
    /\ pc = "handler"
    /\ exc' = "none"
    /\ pc' = "loop"
    /\ UNCHANGED <<url, events, response, reqLog, sizes, failed, pageStart, lambdaVars, pureVars>>

\* the loop condition fails: return events; the other locals go out of scope
Return ==
    /\ pc = "loop"
    /\ ~LoopCondition(url, events)
    /\ url' = None
    /\ response' = NoResponse
    /\ pc' = "returned"
    /\ UNCHANGED <<events, exc, reqLog, sizes, failed, pageStart, lambdaVars, pureVars>>

------------------------------------------------------------------------------
(* transform_data_to_csv and lambda_handler *)

\* csv_headers, restricted to the fields FlatRecord carries
CsvHeaders == <<"event_id", "created_at">>

\* writer.writeheader(); writer.writerows(data)
transform_data_to_csv(recs) ==
    <<CsvHeaders>> \o
    [i \in 1..Len(recs) |-> [j \in 1..Len(CsvHeaders) |-> recs[i][CsvHeaders[j]]]]

\* if len(events):
AlwaysHasEvents(evs) == TRUE
HasEvents(evs) == Len(evs) # 0

fetchVars == <<url, events, response, exc, reqLog, sizes, failed, pageStart>>

\* csv_output = transform_data_to_csv(events)
Transform ==
    /\ pc = "returned"
    /\ HasEvents(events)
    /\ csv_output' = transform_data_to_csv(events)
    /\ pc' = "put_dated"
    /\ UNCHANGED <<fetchVars, pureVars, s3, result>>

\* s3_client.put_object(... Key=f'{slug}_backup/events_{datetime_str}.csv' ...)
PutDated ==
    /\ pc = "put_dated"
    /\ s3' = Append(s3, [key |-> "backup/events_dated.csv", body |-> csv_output])
    /\ pc' = "put_latest"
    /\ UNCHANGED <<fetchVars, pureVars, csv_output, result>>

\* s3_client.put_object(... Key=f'{slug}/events.csv' ...)
PutLatest ==
    /\ pc = "put_latest"
    /\ s3' = Append(s3, [key |-> "events.csv", body |-> csv_output])
    /\ pc' = "respond"
    /\ UNCHANGED <<fetchVars, pureVars, csv_output, result>>

\* put_object raises: nothing in lambda_handler catches it
PutRaises ==
    /\ pc \in {"put_dated", "put_latest"}
    /\ pc' = "aborted"
    /\ UNCHANGED <<fetchVars, pureVars, lambdaVars>>

\* no events: the if block is skipped
SkipWrites ==
    /\ pc = "returned"
    /\ ~HasEvents(events)
    /\ pc' = "respond"
    /\ UNCHANGED <<fetchVars, pureVars, lambdaVars>>

\* return {'statusCode': 200, 'body': 'Sucesso'}
Respond ==
    /\ pc = "respond"
    /\ result' = [statusCode |-> 200, body |-> "Sucesso"]
    /\ pc' = "done"
    /\ UNCHANGED <<fetchVars, pureVars, csv_output, s3>>

------------------------------------------------------------------------------
(* Specifications *)

NoValue == [t |-> "none", v |-> 0]
NotCalled == [done |-> FALSE, val |-> NoValue]

Init ==
    /\ pc = "loop"
    /\ url = BaseUrl
    /\ events = <<>>
    /\ response = NoResponse
    /\ exc = "none"
    /\ reqLog = <<>>
    /\ sizes = <<>>
    /\ failed = FALSE
    /\ pageStart = 0
    /\ csv_output = <<>>
    /\ s3 = <<>>
    /\ result = [statusCode |-> 0, body |-> ""]
    /\ data = NoValue
    /\ cleaned = NotCalled
    /\ entries = <<>>
    /\ info = NotCalled

\* small pages, a page just under the cap and a page of exactly the cap
PageSizes == (0..MaxSmallPage) \cup {BigPage, MaxEvents}

\* Pagination up to the cap, with Link headers of at most one part
Next ==
    \/ Request(Responses(PageSizes, LinksUpTo(1), 1..MaxBadPos), TRUE)
    \/ RaiseOnOpen
    \/ ProcessPage
    \/ Handler
    \/ Return
    \/ Transform
    \/ PutDated
    \/ PutLatest
    \/ PutRaises
    \/ SkipWrites
    \/ Respond

Spec == Init /\ [][Next]_vars

\* Link headers of up to MaxParts parts, on pages of one well-formed event
NextLink ==
    \/ Request(Raising \cup GoodPages({1}, LinksUpTo(MaxParts)), TRUE)
    \/ RaiseOnOpen
    \/ ProcessPage
    \/ Handler
    \/ Return

SpecLink == Init /\ [][NextLink]_vars

\* get_all_events alone, the number of requests not capped: the interpreter
\* always takes the next step of the loop
NextLive ==
    \/ Request(Responses({BigPage}, LinksUpTo(1), {1}), FALSE)
    \/ RaiseOnOpen
    \/ ProcessPage
    \/ Handler
    \/ Return

SpecLive == Init /\ [][NextLive]_vars /\ WF_vars(NextLive)

------------------------------------------------------------------------------
(* clean_quoted_strings on every value of at most MaxValueNodes nodes: a shape
   (the containers and their keys, a hole for every leaf) and a leaf for every
   hole *)

Leaves(n) == {Str(s) : s \in Strs(n)} \cup Scalars
Hole == [t |-> "hole", v |-> 0]

\* the keys "k" and "'k'"
Keys == {<<"k">>, <<"'", "k", "'">>}
KeySeqs(n) == {ks \in [1..n -> Keys] : \A i, j \in 1..n : i # j => ks[i] # ks[j]}
DictsOver(items) ==
    {Dict([i \in 1..Len(items) |-> [k |-> ks[i], v |-> items[i]]]) :
        ks \in KeySeqs(Len(items))}

RECURSIVE ShapesOfSize(_), ShapeSeqs(_)
ShapesOfSize(n) ==
    IF n = 1 THEN {Hole, List(<<>>), Dict(<<>>)}
    ELSE {List(items) : items \in ShapeSeqs(n - 1)}
         \cup UNION {DictsOver(items) : items \in ShapeSeqs(n - 1)}
ShapeSeqs(m) ==
    IF m = 0 THEN {<<>>}
    ELSE UNION {LET firsts == ShapesOfSize(j)
                    rests == ShapeSeqs(m - j)
                IN {<<x>> \o rest : x \in firsts, rest \in rests} : j \in 1..m}

ValueShapes(n) == UNION {ShapesOfSize(k) : k \in 1..n}

Items(x) == IF x.t = "dict" THEN [i \in 1..Len(x.v) |-> x.v[i].v] ELSE x.v

RECURSIVE Holes(_), HolesBefore(_, _), Fill(_, _, _)
Holes(x) ==
    IF x.t = "hole" THEN 1
    ELSE IF x.t \in {"list", "dict"} THEN HolesBefore(Items(x), Len(x.v))
    ELSE 0
HolesBefore(items, i) ==
    IF i = 0 THEN 0 ELSE HolesBefore(items, i - 1) + Holes(items[i])

\* the shape x with its holes filled, left to right, by ls[off + 1], ...
Fill(x, ls, off) ==
    IF x.t = "hole" THEN ls[off + 1]
    ELSE IF x.t = "list"
    THEN List([i \in 1..Len(x.v) |-> Fill(x.v[i], ls, off + HolesBefore(x.v, i - 1))])
    ELSE IF x.t = "dict"
    THEN Dict([i \in 1..Len(x.v) |->
             [k |-> x.v[i].k,
              v |-> Fill(x.v[i].v, ls, off + HolesBefore(Items(x), i - 1))]])
    ELSE x

InitClean ==
    /\ pc = "clean"
    /\ url = None
    /\ events = <<>>
    /\ response = NoResponse
    /\ exc = "none"
    /\ reqLog = <<>>
    /\ sizes = <<>>
    /\ failed = FALSE
    /\ pageStart = 0
    /\ csv_output = <<>>
    /\ s3 = <<>>
    /\ result = [statusCode |-> 0, body |-> ""]
    /\ \/ \E shape \in ValueShapes(MaxValueNodes) :
              \E ls \in [1..Holes(shape) -> Leaves(MaxStrLen)] :
                  data = Fill(shape, ls, 0)
       \/ data = Str(<<"'", "'", "a", "'", "'">>)
    /\ cleaned = NotCalled
    /\ entries = <<>>
    /\ info = NotCalled

CallClean ==
    /\ pc = "clean"
    /\ cleaned' = [done |-> TRUE, val |-> clean_quoted_strings(data)]
    /\ pc' = "cleaned"
    /\ UNCHANGED <<fetchVars, lambdaVars, data, entries, info>>

SpecClean == InitClean /\ [][CallClean]_vars

------------------------------------------------------------------------------
(* get_collect_info on every entries list of at most MaxTraceNodes entries,
   threads and frames in all: a shape (the entries and threads, a blank frame
   for every frame) and a frame for every blank *)

B1 == Dict(<<[k |-> <<"i", "d">>, v |-> Str(<<"'", "a", "'">>)]>>)
B2 == Dict(<<[k |-> <<"i", "d">>, v |-> Str(<<"a", "'">>)]>>)

Blank == [has_vars |-> FALSE, vars |-> <<>>]

FrameKinds ==
    {Blank,
     [has_vars |-> TRUE, vars |-> <<[k |-> "x", v |-> B2]>>],
     [has_vars |-> TRUE, vars |-> <<[k |-> "body", v |-> B1]>>],
     [has_vars |-> TRUE, vars |-> <<[k |-> "x", v |-> B1], [k |-> "body", v |-> B2]>>]}

ThreadsOfSize(n) ==
    IF n = 1
    THEN {[stacktrace |-> "absent", has_frames |-> FALSE, frames |-> <<>>],
          [stacktrace |-> "null", has_frames |-> FALSE, frames |-> <<>>],
          [stacktrace |-> "dict", has_frames |-> FALSE, frames |-> <<>>],
          [stacktrace |-> "dict", has_frames |-> TRUE, frames |-> <<>>]}
    ELSE {[stacktrace |-> "dict", has_frames |-> TRUE,
           frames |-> [i \in 1..(n - 1) |-> Blank]]}

RECURSIVE ThreadSeqs(_)
ThreadSeqs(m) ==
    IF m = 0 THEN {<<>>}
    ELSE UNION {LET firsts == ThreadsOfSize(j)
                    rests == ThreadSeqs(m - j)
                IN {<<t>> \o rest : t \in firsts, rest \in rests} : j \in 1..m}

EntriesOfSize(n) ==
    IF n = 1
    THEN {[has_data |-> FALSE, has_values |-> FALSE, values |-> <<>>],
          [has_data |-> TRUE, has_values |-> FALSE, values |-> <<>>],
          [has_data |-> TRUE, has_values |-> TRUE, values |-> <<>>]}
    ELSE {[has_data |-> TRUE, has_values |-> TRUE, values |-> ts] :
             ts \in ThreadSeqs(n - 1)}

RECURSIVE EntrySeqs(_)
EntrySeqs(m) ==
    IF m = 0 THEN {<<>>}
    ELSE UNION {LET firsts == EntriesOfSize(j)
                    rests == EntrySeqs(m - j)
                IN {<<e>> \o rest : e \in firsts, rest \in rests} : j \in 1..m}

\* the shapes of the entries lists of at most n nodes
EntriesShapes(n) == UNION {EntrySeqs(m) : m \in 0..n}

RECURSIVE BlanksInThreads(_, _), BlanksInEntries(_, _)
BlanksInThreads(ts, j) ==
    IF j = 0 THEN 0 ELSE BlanksInThreads(ts, j - 1) + Len(ts[j].frames)
BlanksInEntries(es, k) ==
    IF k = 0 THEN 0
    ELSE BlanksInEntries(es, k - 1) + BlanksInThreads(es[k].values, Len(es[k].values))

\* the shape es with its blank frames replaced, in order, by fs[1], fs[2], ...
FillFrames(es, fs) ==
    [k \in 1..Len(es) |->
        [has_data |-> es[k].has_data,
         has_values |-> es[k].has_values,
         values |->
            [j \in 1..Len(es[k].values) |->
                [stacktrace |-> es[k].values[j].stacktrace,
                 has_frames |-> es[k].values[j].has_frames,
                 frames |->
                    [i \in 1..Len(es[k].values[j].frames) |->
                        fs[BlanksInEntries(es, k - 1)
                           + BlanksInThreads(es[k].values, j - 1) + i]]]]]]

InitCollect ==
    /\ pc = "collect"
    /\ url = None
    /\ events = <<>>
    /\ response = NoResponse
    /\ exc = "none"
    /\ reqLog = <<>>
    /\ sizes = <<>>
    /\ failed = FALSE
    /\ pageStart = 0
    /\ csv_output = <<>>
    /\ s3 = <<>>
    /\ result = [statusCode |-> 0, body |-> ""]
    /\ data = NoValue
    /\ cleaned = NotCalled
    /\ \E shape \in EntriesShapes(MaxTraceNodes) :
           \E fs \in [1..BlanksInEntries(shape, Len(shape)) -> FrameKinds] :
               entries = FillFrames(shape, fs)
    /\ info = NotCalled

CallCollect ==
    /\ pc = "collect"
    /\ info' = [done |-> TRUE, val |-> get_collect_info(entries)]
    /\ pc' = "collected"
    /\ UNCHANGED <<fetchVars, lambdaVars, data, cleaned, entries>>

SpecCollect == InitCollect /\ [][CallCollect]_vars

------------------------------------------------------------------------------
(* Properties of get_all_events and lambda_handler *)

\* the flat record expected for event i of the page answered to request p
ExpectedRecord(p, i) ==
    [event_id |-> <<p, i>>,
     created_at |-> IF i % 2 = 1 THEN "T.f" ELSE "T.000000"]

ExpectedRecords(p, n) == [i \in 1..n |-> ExpectedRecord(p, i)]

\* the records of pages 1..n of sizes sz, page after page
RECURSIVE ConcatPages(_, _)
ConcatPages(sz, n) ==
    IF n = 0 THEN <<>> ELSE ConcatPages(sz, n - 1) \o ExpectedRecords(n, sz[n])

\* the URL a Link header asks to follow: that of its (last) rel="next" entry,
\* provided the header carries a results="true" marker
ExpectedNext(link) ==
    LET nexts == {i \in 1..Len(link.parts) : link.parts[i].rel = "next"}
        last == CHOOSE i \in nexts : \A j \in nexts : j <= i
    IN IF link.present /\ nexts # {} /\ \E j \in 1..Len(link.parts) : link.parts[j].results
       THEN link.parts[last].url
       ELSE None

InFetch == pc \in {"loop", "process", "handler"}

\* C1 (as claimed): once a page fetch has failed, the loop terminates and no
\* further request is issued.
C1_NoRequestAfterFailure == ~(failed /\ pc = "process")

\* C2 (as claimed): get_all_events never fetches indefinitely; whatever the
\* upstream answers, the loop eventually exits and the function returns.
C2_Terminates == <>(pc = "returned")

\* C3: the cap is checked only before a page fetch. A request is in flight only
\* while fewer than 1000 events are accumulated; a successfully processed page
\* is appended whole; the count stays below 1000 plus the size of the last page.
C3_CapBeforeFetch ==
    InFetch =>
        /\ pc = "process" => Len(events) < MaxEvents
        /\ (pc = "loop" /\ response.kind = "ok") =>
               /\ Len(events) = pageStart + response.size
               /\ SubSeq(events, pageStart + 1, Len(events))
                      = ExpectedRecords(Len(reqLog), response.size)
        /\ Len(events) < MaxEvents + response.size

C3_Witness ==
    /\ pc = "loop"
    /\ response.kind = "ok"
    /\ Len(reqLog) = 2
    /\ Len(events) > MaxEvents
    /\ ~LoopCondition(url, events)

\* C4: while no fetch has failed, the first request goes to the base URL, every
\* later one to the next URL given by the previous page, there is one request
\* per page, and the accumulated list is the records of all pages in page
\* order, each page in response order; at the return it is the result.
C4_PagesInOrder ==
    ~failed =>
        /\ reqLog # <<>> => reqLog[1] = BaseUrl
        /\ (pc = "loop" /\ reqLog # <<>>) =>
               /\ url = ExpectedNext(response.link)
               /\ Len(reqLog) = Len(sizes)
        /\ pc = "process" =>
               /\ reqLog[Len(reqLog)] = url
               /\ Len(reqLog) = Len(sizes) + 1
        /\ pc = "returned" => Len(reqLog) = Len(sizes)
        /\ events = ConcatPages(sizes, Len(sizes))

C4_Witness ==
    /\ pc = "returned"
    /\ ~failed
    /\ Len(reqLog) = 2
    /\ reqLog[2] = "u2"
    /\ sizes = <<2, 2>>
    /\ Len(events) = 4

\* C5: after a successful page the next URL is followed only if the Link
\* header has a rel="next" entry and carries the results="true" marker, and it
\* is the URL of that entry (the last one, should there be several); otherwise
\* url is None and pagination stops.
C5_FollowsNextLink ==
    /\ (pc = "loop" /\ response.kind = "ok") =>
           /\ url = ExpectedNext(response.link)
           /\ LoopCondition(url, events) => url \in NextUrls \ {""}
    /\ (pc = "process" /\ Len(reqLog) > 1) => reqLog[Len(reqLog)] = url

C5_Witness ==
    /\ pc = "process"
    /\ Len(reqLog) = 2
    /\ reqLog[2] = "u2"
    /\ ~failed

\* C6 (as claimed): every completed invocation has made exactly two writes, the
\* dated snapshot then the latest object, with identical content, and returns 200.
TwoWrites ==
    /\ Len(s3) = 2
    /\ s3[1].key = "backup/events_dated.csv"
    /\ s3[2].key = "events.csv"
    /\ s3[1].body = s3[2].body
    /\ Len(s3[1].body) = Len(events) + 1

C6_AlwaysTwoWrites == pc = "done" => (TwoWrites /\ result.statusCode = 200)

\* C6 (amended): every completed invocation returns 200; it has made exactly
\* the two writes, in that order and with identical content, when the fetch
\* returned at least one event, and no write at all when it returned none.
C6_WritesIffEvents ==
    pc = "done" =>
        /\ result.statusCode = 200
        /\ IF events # <<>> THEN TwoWrites ELSE s3 = <<>>

C6_Witness == pc = "done" /\ failed /\ Len(s3) = 2 /\ Len(events) = 2

\* C8 (as claimed): an event lacking a required top-level field raises an error
\* that nothing catches, and the run is aborted.
C8_MissingFieldAborts == exc = "KeyError" => pc = "aborted"

\* C8 (amended): the KeyError of an event lacking a required top-level field is
\* caught by the generic handler of get_all_events; the run is not aborted, and
\* the records of the earlier events of that page stay appended.
C8_MissingFieldCaught ==
    exc = "KeyError" =>
        /\ pc = "handler"
        /\ response.kind = "missing"
        /\ Len(events) = pageStart + response.bad - 1

C8_Witness ==
    /\ pc = "handler"
    /\ exc = "KeyError"
    /\ response.bad = 2
    /\ pageStart > 0

\* C10: when event k of a page has a dateCreated matching neither format, the
\* ValueError reaches the generic handler with the accumulated list equal to the
\* list before the page followed by the records of the first k-1 events.
C10_BadDateNoRollback ==
    [][(pc = "process" /\ response.kind = "baddate") =>
          /\ pc' = "handler"
          /\ exc' = "ValueError"
          /\ events' = events \o ExpectedRecords(Len(reqLog), response.bad - 1)]_vars

C10_Witness ==
    /\ pc = "handler"
    /\ exc = "ValueError"
    /\ response.kind = "baddate"
    /\ response.bad = 2
    /\ pageStart > 0
    /\ Len(events) = pageStart + 1

------------------------------------------------------------------------------
(* Properties of clean_quoted_strings and get_collect_info *)

Quoted(s) == Len(s) >= 2 /\ s[1] = "'" /\ s[Len(s)] = "'"

\* y is x with one layer of quotes removed from every quoted string
RECURSIVE Stripped(_, _)
Stripped(x, y) ==
    /\ y.t = x.t
    /\ IF x.t = "dict"
       THEN /\ Len(y.v) = Len(x.v)
            /\ \A i \in 1..Len(x.v) :
                   y.v[i].k = x.v[i].k /\ Stripped(x.v[i].v, y.v[i].v)
       ELSE IF x.t = "list"
       THEN /\ Len(y.v) = Len(x.v)
            /\ \A i \in 1..Len(x.v) : Stripped(x.v[i], y.v[i])
       ELSE IF x.t = "str" /\ Quoted(x.v)
       THEN /\ Len(y.v) = Len(x.v) - 2
            /\ \A i \in 1..Len(y.v) : y.v[i] = x.v[i + 1]
       ELSE y.v = x.v

\* C9: clean_quoted_strings returns a value of the same structure (same keys,
\* same lengths and order) in which every string of length at least 2 that
\* starts and ends with a quote has lost exactly one quote on each side, and
\* every other value is unchanged; "''a''" becomes "'a'", "''" becomes "" and
\* "'" stays.
C9_OneLayerStripped ==
    cleaned.done =>
        /\ Stripped(data, cleaned.val)
        /\ data = Str(<<"'", "'", "a", "'", "'">>) => cleaned.val = Str(<<"'", "a", "'">>)
        /\ data = Str(<<"'", "'">>) => cleaned.val = Str(<<>>)
        /\ data = Str(<<"'">>) => cleaned.val = Str(<<"'">>)

C9_Witness ==
    /\ cleaned.done
    /\ data = Dict(<<[k |-> <<"'", "k", "'">>, v |-> List(<<Str(<<"'", "a", "'">>)>>)]>>)
    /\ cleaned.val = Dict(<<[k |-> <<"'", "k", "'">>, v |-> List(<<Str(<<"a">>)>>)]>>)

\* the frames a thread contributes: none when stacktrace is missing or null
ThreadFrames(thread) ==
    IF thread.stacktrace \in {"absent", "null"} \/ ~thread.has_frames
    THEN <<>> ELSE thread.frames

RECURSIVE Flatten(_)
Flatten(seqs) == IF seqs = <<>> THEN <<>> ELSE Head(seqs) \o Flatten(Tail(seqs))

\* every frame of the entries, in entries -> threads -> frames order
AllFrames(es) ==
    Flatten([k \in 1..Len(es) |->
        IF es[k].has_data /\ es[k].has_values
        THEN Flatten([j \in 1..Len(es[k].values) |-> ThreadFrames(es[k].values[j])])
        ELSE <<>>])

Qualifying(fs) ==
    {i \in 1..Len(fs) :
        fs[i].has_vars /\ \E n \in 1..Len(fs[i].vars) : fs[i].vars[n].k = "body"}

BodyOf(frame) ==
    frame.vars[CHOOSE n \in 1..Len(frame.vars) : frame.vars[n].k = "body"].v

\* C7: get_collect_info returns the normalized vars["body"] of the first frame,
\* in entries -> threads -> frames order, whose vars has the key "body", and
\* an empty mapping when there is none.
C7_FirstBody ==
    info.done =>
        LET fs == AllFrames(entries)
            q == Qualifying(fs)
        IN IF q = {} THEN info.val = Dict(<<>>)
           ELSE info.val = clean_quoted_strings(
                    BodyOf(fs[CHOOSE i \in q : \A j \in q : i <= j]))

C7_Witness ==
    /\ info.done
    /\ Len(entries) = 1
    /\ Len(entries[1].values) = 2
    /\ Cardinality(Qualifying(AllFrames(entries))) = 2
    /\ BodyOf(AllFrames(entries)[1]) = B1
    /\ BodyOf(AllFrames(entries)[2]) = B2
    /\ info.val = Dict(<<[k |-> <<"i", "d">>, v |-> Str(<<"a">>)]>>)

\* a thread whose stacktrace is null, ahead of the qualifying frame
C7_NullStacktraceSkipped ==
    /\ info.done
    /\ Len(entries) = 1
    /\ Len(entries[1].values) = 2
    /\ entries[1].values[1].stacktrace = "null"
    /\ info.val = B2

====
